---- MODULE Spec2Model ----
(***************************************************************************)
(* Model of the voice-bot session of server.py: one websocket connection,  *)
(* its receive loop (ws_handler), the speak coroutine, the segmentation    *)
(* counters and the scripted dialogue.                                     *)
(*                                                                         *)
(* Text is a sequence of one-character strings.  Audio is a sequence of    *)
(* runs [n |-> bytes, amp |-> mean absolute sample amplitude]; adjacent    *)
(* runs of equal amplitude are merged, so equal byte strings have equal    *)
(* representations.                                                        *)
(***************************************************************************)
EXTENDS Integers, Sequences, FiniteSets, TLC

(***************************************************************************)
(* Configuration of server.py                                              *)
(***************************************************************************)
MIN_CHUNK_SIZE == 3200
SPEECH_THRESHOLD == 520
SILENCE_CHUNKS == 10
MIN_SPEECH_CHUNKS == 6

(***************************************************************************)
(* Text: characters, words, the literals of the script                     *)
(***************************************************************************)
UpperCase == <<"A","B","C","D","E","F","G","H","I","J","K","L","M",
               "N","O","P","Q","R","S","T","U","V","W","X","Y","Z">>
LowerCase == <<"a","b","c","d","e","f","g","h","i","j","k","l","m",
               "n","o","p","q","r","s","t","u","v","w","x","y","z">>

\* str.lower() on one character
LowerChar(c) ==
  IF \E i \in 1..Len(UpperCase) : UpperCase[i] = c
  THEN LowerCase[CHOOSE i \in 1..Len(UpperCase) : UpperCase[i] = c]
  ELSE c

\* str.lower()
Lower(t) == [i \in 1..Len(t) |-> LowerChar(t[i])]

\* characters str.strip() and str.split() treat as whitespace
IsSpace(c) == c \in {" ", "\t", "\n"}

\* `pat in t` at position i (1-based)
MatchAt(t, pat, i) ==
  /\ i + Len(pat) - 1 <= Len(t)
  /\ \A j \in 1..Len(pat) : t[i + j - 1] = pat[j]

\* `pat in t` for Python strings
Contains(t, pat) == \E i \in 1..(Len(t) - Len(pat) + 1) : MatchAt(t, pat, i)

\* str.replace(old, new): left to right, non-overlapping, all occurrences
RECURSIVE ReplaceFrom(_, _, _, _)
ReplaceFrom(t, old, new, i) ==
  IF i > Len(t) THEN <<>>
  ELSE IF MatchAt(t, old, i) THEN new \o ReplaceFrom(t, old, new, i + Len(old))
  ELSE <<t[i]>> \o ReplaceFrom(t, old, new, i + 1)

Replace(t, old, new) == ReplaceFrom(t, old, new, 1)

\* str.strip()
RECURSIVE LStrip(_)
LStrip(t) == IF t # <<>> /\ IsSpace(Head(t)) THEN LStrip(Tail(t)) ELSE t

RECURSIVE RStrip(_)
RStrip(t) ==
  IF t # <<>> /\ IsSpace(t[Len(t)]) THEN RStrip(SubSeq(t, 1, Len(t) - 1)) ELSE t

Strip(t) == RStrip(LStrip(t))

\* str.split(): the maximal whitespace-free substrings, as a set of words
WordStarts(t) ==
  {i \in 1..Len(t) : ~IsSpace(t[i]) /\ (i = 1 \/ IsSpace(t[i - 1]))}

WordEnd(t, i) ==
  CHOOSE j \in i..Len(t) :
    /\ \A k \in i..j : ~IsSpace(t[k])
    /\ (j = Len(t) \/ IsSpace(t[j + 1]))

Words(t) == {SubSeq(t, i, WordEnd(t, i)) : i \in WordStarts(t)}

\* the keys of FAQ_MAP, in dictionary (insertion) order
K_interest == <<"i","n","t","e","r","e","s","t">>
K_repayment == <<"r","e","p","a","y","m","e","n","t">>
K_emi == <<"e","m","i">>
K_limit == <<"l","i","m","i","t">>
K_processing_fee == <<"p","r","o","c","e","s","s","i","n","g"," ","f","e","e">>
K_documents == <<"d","o","c","u","m","e","n","t","s">>
K_cibil == <<"c","i","b","i","l">>
K_mandate == <<"m","a","n","d","a","t","e">>
K_risk == <<"r","i","s","k">>
K_did_not_get_money ==
  <<"d","i","d"," ","n","o","t"," ","g","e","t"," ","m","o","n","e","y">>

FAQ_KEYS == <<K_interest, K_repayment, K_emi, K_limit, K_processing_fee,
              K_documents, K_cibil, K_mandate, K_risk, K_did_not_get_money>>

\* the word lists of is_negative and is_positive
W_no == <<"n","o">>
W_nope == <<"n","o","p","e">>
W_not == <<"n","o","t">>
W_not_interested == <<"n","o","t"," ","i","n","t","e","r","e","s","t","e","d">>
W_yes == <<"y","e","s">>
W_sure == <<"s","u","r","e">>
W_okay == <<"o","k","a","y">>
W_ok == <<"o","k">>
W_guide == <<"g","u","i","d","e">>

NEGATIVE_WORDS == {W_no, W_nope, W_not, W_not_interested}
POSITIVE_WORDS == {W_yes, W_sure, W_okay, W_ok, W_guide}

\* the replacements of normalize_text, in dictionary order
REPLACEMENTS ==
  << <<<<"r","e","p","a","i","r">>, K_repayment>>,
     <<<<"p","r","e","p","a","r","e">>, K_repayment>>,
     <<<<"e","n","e","m","y">>, K_emi>>,
     <<<<"m","a","n"," ","d","a","t","e">>, K_mandate>>,
     <<<<"t","e","n"," ","y","e","a","r">>, <<"t","e","n","u","r","e">>>>,
     <<<<"n","o","u","n">>, W_no>> >>

RECURSIVE ApplyReplacements(_, _)
ApplyReplacements(t, k) ==
  IF k > Len(REPLACEMENTS) THEN t
  ELSE ApplyReplacements(Replace(t, REPLACEMENTS[k][1], REPLACEMENTS[k][2]), k + 1)

normalize_text(text) == ApplyReplacements(Lower(text), 1)

is_negative(text) == Words(Lower(text)) \cap NEGATIVE_WORDS # {}

is_positive(text) == Words(Lower(text)) \cap POSITIVE_WORDS # {}

\* detect_faq returns FAQ_MAP[key] for the first key (in dictionary order)
\* that is a substring of the text, else None; the answer is named by the
\* index of its key, None by 0
detect_faq(text) ==
  IF \E k \in 1..Len(FAQ_KEYS) : Contains(text, FAQ_KEYS[k])
  THEN CHOOSE k \in 1..Len(FAQ_KEYS) :
         /\ Contains(text, FAQ_KEYS[k])
         /\ \A j \in 1..(k - 1) : ~Contains(text, FAQ_KEYS[j])
  ELSE 0

(***************************************************************************)
(* Audio: byte strings as runs of equal mean amplitude                     *)
(***************************************************************************)
Run(n, a) == [n |-> n, amp |-> a]

\* len(b)
RECURSIVE BLen(_)
BLen(b) == IF b = <<>> THEN 0 ELSE Head(b).n + BLen(Tail(b))

\* a + b
BCat(a, b) ==
  IF a = <<>> THEN b
  ELSE IF b = <<>> THEN a
  ELSE IF a[Len(a)].amp = b[1].amp
       THEN SubSeq(a, 1, Len(a) - 1)
              \o <<Run(a[Len(a)].n + b[1].n, b[1].amp)>> \o Tail(b)
       ELSE a \o b

\* b[:k]
RECURSIVE BTake(_, _)
BTake(b, k) ==
  IF k <= 0 \/ b = <<>> THEN <<>>
  ELSE IF Head(b).n <= k THEN <<Head(b)>> \o BTake(Tail(b), k - Head(b).n)
  ELSE <<Run(k, Head(b).amp)>>

\* b[k:]
RECURSIVE BDrop(_, _)
BDrop(b, k) ==
  IF k <= 0 \/ b = <<>> THEN b
  ELSE IF Head(b).n <= k THEN BDrop(Tail(b), k - Head(b).n)
  ELSE <<Run(Head(b).n - k, Head(b).amp)>> \o Tail(b)

\* sum of abs(sample) over the 16-bit samples of pcm (run lengths are even)
RECURSIVE Energy(_)
Energy(pcm) ==
  IF pcm = <<>> THEN 0 ELSE (Head(pcm).n \div 2) * Head(pcm).amp + Energy(Tail(pcm))

Max(a, b) == IF a >= b THEN a ELSE b

\* energy / max(len(pcm)//2, 1) > SPEECH_THRESHOLD
is_speech(pcm) == Energy(pcm) > SPEECH_THRESHOLD * Max(BLen(pcm) \div 2, 1)

(***************************************************************************)
(* Bounds of the model and the inputs the environment draws from           *)
(***************************************************************************)
MaxInbox == 2
MaxPending == 6
Loud == 1200
Quiet == 0

\* raw transcripts the speech-to-text service may return
T_empty == <<>>
T_Yes == <<"Y","e","s"," ">>
T_noun == <<"n","o","u","n">>
T_hm == <<"h","m">>
T_not_interested == W_not_interested
T_ok_emi_interest == <<"o","k"," ","e","m","i"," ","i","n","t","e","r","e","s","t">>
T_ok_what == <<"o","k"," ","w","h","a","t">>
T_did == <<"d","i","d">>
T_not_get_money == <<"n","o","t"," ","g","e","t"," ","m","o","n","e","y">>

\* What the peer and the two services do is drawn per call from one of
\* three scenarios: "audio" varies the framing of the audio, "dialogue" the
\* transcripts, "transport" the kinds of message and the synthesized audio.
Scenarios == {"audio", "dialogue", "transport"}

\* the kinds of message the peer sends
KindsOf(sc) ==
  CASE sc = "audio" -> {"media"}
    [] sc = "dialogue" -> {"start", "stop", "media"}
    [] OTHER -> {"start", "stop", "binary", "badjson", "nomedia", "media"}

\* media payloads after base64 decoding: whole and half frames
PayloadsOf(sc) ==
  CASE sc = "audio" ->
         {<<Run(MIN_CHUNK_SIZE, Loud)>>, <<Run(MIN_CHUNK_SIZE, Quiet)>>,
          <<Run(MIN_CHUNK_SIZE \div 2, Quiet)>>}
    [] OTHER ->
         {<<Run(MIN_CHUNK_SIZE, Loud)>>}

TranscriptsOf(sc) ==
  CASE sc = "audio" -> {T_empty, T_hm}
    [] sc = "dialogue" ->
         {T_empty, T_Yes, T_noun, T_hm, T_not_interested, T_ok_emi_interest,
          T_ok_what, T_did, T_not_get_money}
    [] OTHER -> {T_empty, T_Yes}

\* lengths of the audio the text-to-speech service may return
TtsSizesOf(sc) ==
  CASE sc = "transport" -> {0, MIN_CHUNK_SIZE, MIN_CHUNK_SIZE + MIN_CHUNK_SIZE \div 2}
    [] OTHER -> {MIN_CHUNK_SIZE}

\* whether the peer may hang up during the call
MayClose(sc) == sc = "transport"

\* the decoded audio of a synthesis of L bytes: half-frame runs of
\* distinct amplitudes, so that position is visible in the content
RECURSIVE SynthFrom(_, _)
SynthFrom(L, k) ==
  IF L <= 0 THEN <<>>
  ELSE <<Run(MIN_CHUNK_SIZE \div 2, k)>> \o SynthFrom(L - MIN_CHUNK_SIZE \div 2, k + 1)

Synth(L) == SynthFrom(L, 1)

(***************************************************************************)
(* The lines of the script                                                 *)
(***************************************************************************)
Line(kind, k) == [kind |-> kind, k |-> k]
PITCH == Line("pitch", 0)
STEPS == <<Line("step", 1), Line("step", 2), Line("step", 3)>>
FAQ_MAP(k) == Line("faq", k)
NUDGE == Line("nudge", 0)
OFFER == Line("offer", 0)
BYE == Line("bye", 0)
NoLine == Line("none", 0)

\* the lines whose speak calls are counted
OnceOnly == {PITCH, BYE} \cup {STEPS[k] : k \in 1..Len(STEPS)}

(***************************************************************************)
(* State                                                                   *)
(***************************************************************************)
VARIABLES
  pc,              \* where ws_handler is suspended, or how it ended
  inbox,           \* messages the peer has sent that ws.receive() has not returned
  peer,            \* "open" or "closed": whether the peer has hung up
  session,         \* the session dict
  buf,             \* undecoded-frame buffer
  speech,          \* speech bytes of the utterance being accumulated
  silence_chunks,
  speech_chunks,
  site,            \* the call site of the speak call in progress
  pcm,             \* speak: the synthesized audio
  i,               \* speak: the loop cursor
  out,             \* media frames sent by the speak call in progress
  line,            \* speak: the text it was called with ("BOT -> ..." log)
  times,           \* how often speak was called with each once-only line
  combined,        \* the combined user text last logged ("USER -> ..."),
                   \* until the speak calls that answer it have returned
  scenario,        \* what the peer and the services do in this call
  h                \* history: the current run of speech frames, the silence
                   \* frames that followed it, the utterances emitted since

vars == <<pc, inbox, peer, session, buf, speech, silence_chunks, speech_chunks,
          site, line, pcm, i, out, times, combined, scenario, h>>

segmenter == <<buf, speech, silence_chunks, speech_chunks>>
speaker == <<site, line, pcm, i, out, times>>

Init ==
  /\ pc = "receive"
  /\ inbox = <<>>
  /\ peer = "open"
  /\ session = [started |-> FALSE, bot_speaking |-> FALSE, step |-> 0,
                pending_text |-> <<>>]
  /\ buf = <<>> /\ speech = <<>>
  /\ silence_chunks = 0 /\ speech_chunks = 0
  /\ site = "none" /\ pcm = <<>> /\ i = 0 /\ out = <<>>
  /\ line = NoLine
  /\ times = [l \in OnceOnly |-> 0]
  /\ scenario \in Scenarios
  /\ combined = <<>>
  /\ h = [speech |-> 0, silence |-> 0, emits |-> 0]

(***************************************************************************)
(* The peer                                                                *)
(***************************************************************************)
Msg(kind, payload) ==
  [kind |-> kind, payload |-> payload, gated |-> session.bot_speaking]

Messages ==
  {Msg(k, <<>>) : k \in KindsOf(scenario) \ {"media"}}
    \cup {Msg(k, p) : k \in KindsOf(scenario) \cap {"media"}, p \in PayloadsOf(scenario)}

\* the peer sends one websocket message
PeerSend ==
  /\ peer = "open"
  /\ Len(inbox) < MaxInbox
  /\ Len(session.pending_text) <= MaxPending
  /\ \E m \in Messages : inbox' = Append(inbox, m)
  /\ UNCHANGED <<pc, peer, session, segmenter, speaker, combined, scenario, h>>

\* the peer hangs up
PeerClose ==
  /\ peer = "open"
  /\ MayClose(scenario)
  /\ peer' = "closed"
  /\ inbox' = Append(inbox, Msg("disconnect", <<>>))
  /\ UNCHANGED <<pc, session, segmenter, speaker, combined, scenario, h>>

(***************************************************************************)
(* speak                                                                   *)
(***************************************************************************)
\* mutant: the gate is left as it was
GateClosed_Forgotten(s) == s

\* line 135: the gate closes
GateClosed(s) == [s EXCEPT !.bot_speaking = TRUE]

\* mutant: only whole frames are sent, a short tail is dropped
MoreFrames_WholeOnly(p, k) == k + MIN_CHUNK_SIZE <= BLen(p)

\* line 138: range(0, len(pcm), MIN_CHUNK_SIZE) has an index k to visit
MoreFrames(p, k) == k < BLen(p)

\* mutant: a send on a connection the peer has closed is dropped silently
CanSend_Always == TRUE

\* ws.send_text succeeds while the peer has not closed the connection
CanSend == peer = "open"

\* speak(ws, text, session) up to its first await: the log line, the gate
\* closes, the synthesis is handed to a thread
SpeakCall(s, where, text) ==
  /\ session' = GateClosed(s)
  /\ line' = text
  /\ times' = IF text \in OnceOnly THEN [times EXCEPT ![text] = @ + 1] ELSE times
  /\ site' = where
  /\ pc' = "tts"
  /\ pcm' = <<>> /\ i' = 0 /\ out' = <<>>

\* tts returns the decoded audio
TtsReturn ==
  /\ pc = "tts"
  /\ \E L \in TtsSizesOf(scenario) :
       /\ pcm' = Synth(L)
       /\ pc' = IF MoreFrames(Synth(L), 0) THEN "send" ELSE "sleep"
  /\ i' = 0
  /\ UNCHANGED <<inbox, peer, session, segmenter, site, line, out, times, combined, scenario, h>>

\* tts raises (request failure, no "audios" in the reply): nothing in
\* speak or ws_handler catches it
TtsRaise ==
  /\ pc = "tts"
  /\ pc' = "crashed"
  /\ UNCHANGED <<inbox, peer, session, segmenter, speaker, combined, scenario, h>>

\* one iteration of the frame loop: ws.send_text of pcm[i:i+MIN_CHUNK_SIZE]
SendFrame ==
  /\ pc = "send"
  /\ CanSend
  /\ out' = Append(out, BTake(BDrop(pcm, i), MIN_CHUNK_SIZE))
  /\ i' = i + MIN_CHUNK_SIZE
  /\ pc' = IF MoreFrames(pcm, i + MIN_CHUNK_SIZE) THEN "send" ELSE "sleep"
  /\ UNCHANGED <<inbox, peer, session, segmenter, site, line, pcm, times, combined, scenario, h>>

\* ws.send_text on a connection the peer has closed raises
SendRaise ==
  /\ pc = "send"
  /\ ~CanSend
  /\ pc' = "closed"
  /\ UNCHANGED <<inbox, peer, session, segmenter, speaker, combined, scenario, h>>

\* mutant: the increment is forgotten
NextStep_Stuck(step) == step

\* line 225: the step index after a step line
NextStep(step) == step + 1

\* mutant: no break after the closing line
AfterSpeak_NoBreak(where) == "receive"

\* where ws_handler goes on after a speak call: break after the closing
\* line (line 236), else the next iteration
AfterSpeak(where) == IF where = "bye" THEN "ended" ELSE "receive"

\* asyncio.sleep(POST_TTS_DELAY) is over: the gate reopens, speak returns
\* and ws_handler continues after the call
SpeakReturn ==
  /\ pc = "sleep"
  /\ LET s == [session EXCEPT !.bot_speaking = FALSE] IN
     IF site = "faq"
     THEN /\ SpeakCall(s, "nudge", NUDGE)
          /\ UNCHANGED combined
     ELSE /\ session' = CASE site = "pitch" -> [s EXCEPT !.started = TRUE]
                          [] site = "step" -> [s EXCEPT !.step = NextStep(s.step)]
                          [] OTHER -> s
          /\ pc' = AfterSpeak(site)
          /\ site' = "none"
          /\ line' = NoLine
          /\ pcm' = <<>> /\ i' = 0 /\ out' = <<>>
          /\ combined' = <<>>
          /\ UNCHANGED times
  /\ UNCHANGED <<inbox, peer, segmenter, scenario, h>>

(***************************************************************************)
(* ws_handler: one action per way an iteration of the receive loop runs    *)
(* from ws.receive() to its next await                                     *)
(***************************************************************************)
\* mutant: frames are handled by a task of their own while a call is out
Receiving_Concurrent == pc \in {"receive", "stt", "tts"}

\* ws_handler is suspended in ws.receive()
Receiving == pc = "receive"

\* mutant: the started flag is not tested
StartAccepted_NoFlag(msg) == msg.kind = "start"

\* line 178: the start event that triggers the pitch
StartAccepted(msg) == msg.kind = "start" /\ ~session.started

\* line 184: events that are not media, and media while the gate is closed
Skipped(msg) == msg.kind \notin {"media", "nomedia"} \/ session.bot_speaking

\* line 200: the accumulation goes on
KeepAccumulating(sp, sil) == sp < MIN_SPEECH_CHUNKS /\ sil < SILENCE_CHUNKS

Min(a, b) == IF a <= b THEN a ELSE b

\* history of the frames cut so far: a run of consecutive speech frames and
\* the silence frames after it
Observe(hist, isSp) ==
  IF isSp
  THEN IF hist.silence > 0
       THEN [speech |-> 1, silence |-> 0, emits |-> 0]
       ELSE [hist EXCEPT !.speech = Min(@ + 1, MIN_SPEECH_CHUNKS)]
  ELSE IF hist.speech >= MIN_SPEECH_CHUNKS
       THEN [hist EXCEPT !.silence = Min(@ + 1, SILENCE_CHUNKS)]
       ELSE [speech |-> 0, silence |-> 0, emits |-> 0]

\* the peer's close: ws.receive() returns the disconnect message, which has
\* no "text", and the next ws.receive() raises RuntimeError (lines 169-171)
RecvDisconnect ==
  /\ Receiving /\ inbox # <<>>
  /\ Head(inbox).kind = "disconnect"
  /\ inbox' = Tail(inbox)
  /\ pc' = "closed"
  /\ UNCHANGED <<peer, session, segmenter, speaker, combined, scenario, h>>

\* line 173: a message without "text"
RecvNonText ==
  /\ Receiving /\ inbox # <<>>
  /\ Head(inbox).kind = "binary"
  /\ inbox' = Tail(inbox)
  /\ UNCHANGED <<pc, peer, session, segmenter, speaker, combined, scenario, h>>

\* line 176: json.loads raises on text that is not JSON
RecvBadJson ==
  /\ Receiving /\ inbox # <<>>
  /\ Head(inbox).kind = "badjson"
  /\ inbox' = Tail(inbox)
  /\ pc' = "crashed"
  /\ UNCHANGED <<peer, session, segmenter, speaker, combined, scenario, h>>

\* lines 178-182: the first start event
RecvStart ==
  /\ Receiving /\ inbox # <<>>
  /\ Head(inbox).kind \notin {"disconnect", "binary", "badjson"}
  /\ StartAccepted(Head(inbox))
  /\ inbox' = Tail(inbox)
  /\ SpeakCall(session, "pitch", PITCH)
  /\ UNCHANGED <<peer, segmenter, combined, scenario, h>>

\* lines 184-185
RecvSkip ==
  /\ Receiving /\ inbox # <<>>
  /\ Head(inbox).kind \notin {"disconnect", "binary", "badjson"}
  /\ ~StartAccepted(Head(inbox))
  /\ Skipped(Head(inbox))
  /\ inbox' = Tail(inbox)
  /\ UNCHANGED <<pc, peer, session, segmenter, speaker, combined, scenario, h>>

\* line 187: a media event without media.payload raises KeyError
RecvNoPayload ==
  /\ Receiving /\ inbox # <<>>
  /\ Head(inbox).kind = "nomedia"
  /\ ~StartAccepted(Head(inbox))
  /\ ~Skipped(Head(inbox))
  /\ inbox' = Tail(inbox)
  /\ pc' = "crashed"
  /\ UNCHANGED <<peer, session, segmenter, speaker, combined, scenario, h>>

\* lines 187-203: a media event
RecvMedia ==
  /\ Receiving /\ inbox # <<>>
  /\ Head(inbox).kind = "media"
  /\ ~StartAccepted(Head(inbox))
  /\ ~Skipped(Head(inbox))
  /\ inbox' = Tail(inbox)
  /\ LET b == BCat(buf, Head(inbox).payload) IN
     IF BLen(b) < MIN_CHUNK_SIZE
     THEN /\ buf' = b
          /\ UNCHANGED <<pc, speech, silence_chunks, speech_chunks, h>>
     ELSE LET frame == BTake(b, MIN_CHUNK_SIZE)
              isSp == is_speech(frame)
              sp == IF isSp THEN speech_chunks + 1 ELSE speech_chunks
              sil == IF isSp THEN 0 ELSE silence_chunks + 1
              hist == Observe(h, isSp)
          IN /\ buf' = BDrop(b, MIN_CHUNK_SIZE)
             /\ speech' = IF isSp THEN BCat(speech, frame) ELSE speech
             /\ speech_chunks' = sp
             /\ silence_chunks' = sil
             /\ IF KeepAccumulating(sp, sil)
                THEN pc' = "receive" /\ h' = hist
                ELSE /\ pc' = "stt"
                     /\ h' = [hist EXCEPT !.emits = Min(@ + 1, 2)]
  /\ UNCHANGED <<peer, session, speaker, combined, scenario>>

\* session["pending_text"] + " " + normalize_text(text)
Pending(text) == session.pending_text \o <<" ">> \o normalize_text(text)

\* mutant: the confirmation words are tested before the FAQ keys
Intent_PositiveFirst(t) ==
  IF is_positive(t) THEN "positive"
  ELSE IF detect_faq(t) # 0 THEN "faq"
  ELSE IF is_negative(t) THEN "negative"
  ELSE "unmatched"

\* lines 214-236: which branch answers the combined text
Intent(t) ==
  IF detect_faq(t) # 0 THEN "faq"
  ELSE IF is_positive(t) THEN "positive"
  ELSE IF is_negative(t) THEN "negative"
  ELSE "unmatched"

\* line 223
HasStep(step) == step < Len(STEPS)

\* lines 204-236: ws_handler goes on with the text stt_safe returned
Answer(text) ==
  /\ speech' = <<>> /\ speech_chunks' = 0 /\ silence_chunks' = 0
  /\ IF text = <<>>
       THEN /\ pc' = "receive"
            /\ UNCHANGED <<session, speaker, combined>>
       ELSE LET pend == Pending(text)
                t == Strip(pend)
                cleared == [session EXCEPT !.pending_text = <<>>]
                kept == [session EXCEPT !.pending_text = pend]
            IN CASE Intent(t) = "faq" ->
                      /\ SpeakCall(cleared, "faq", FAQ_MAP(detect_faq(t)))
                      /\ combined' = t
                 [] Intent(t) = "positive" ->
                      /\ IF HasStep(session.step)
                         THEN SpeakCall(cleared, "step", STEPS[session.step + 1])
                         ELSE SpeakCall(cleared, "offer", OFFER)
                      /\ combined' = t
                 [] Intent(t) = "negative" ->
                      /\ SpeakCall(kept, "bye", BYE)
                      /\ combined' = t
                 [] OTHER ->
                      /\ session' = kept
                      /\ pc' = "receive"
                      /\ combined' = t
                      /\ UNCHANGED speaker
  /\ UNCHANGED <<inbox, peer, buf, scenario, h>>

\* lines 106-113: the request succeeds; stt_safe returns the stripped
\* transcript
SttReturn ==
  /\ pc = "stt"
  /\ \E raw \in TranscriptsOf(scenario) : Answer(Strip(raw))

\* lines 106-113: the request or the decoding of its reply raises
SttRaise ==
  /\ pc = "stt"
  /\ pc' = "stt_failed"
  /\ UNCHANGED <<inbox, peer, session, segmenter, speaker, combined, scenario, h>>

\* mutant: the handler returns a placeholder text
stt_except_Placeholder == <<"e","r","r","o","r">>

\* lines 114-115: what stt_safe returns from its except clause
stt_except == <<>>

\* lines 114-115: the exception is caught and stt_safe returns
SttExcept ==
  /\ pc = "stt_failed"
  /\ Answer(stt_except)

Next ==
  \/ PeerSend \/ PeerClose
  \/ RecvDisconnect \/ RecvNonText \/ RecvBadJson \/ RecvStart \/ RecvSkip
  \/ RecvNoPayload \/ RecvMedia \/ SttReturn \/ SttRaise \/ SttExcept
  \/ TtsReturn \/ TtsRaise \/ SendFrame \/ SendRaise \/ SpeakReturn

Spec == Init /\ [][Next]_vars

(***************************************************************************)
(* Properties                                                              *)
(***************************************************************************)
\* a step of ws_handler takes the message at the head of the inbox
Consumes == inbox # <<>> /\ inbox' = Tail(inbox)

\* stt_safe returns in this step
SttReturns == pc \in {"stt", "stt_failed"} /\ pc' \notin {"stt", "stt_failed"}

\* C1: frames the VAD classifies as non-speech never make the session emit
\* an utterance: whenever transcription is invoked, at least one speech
\* frame has been accumulated since the last boundary.
C1_SilenceNeverEmits == pc = "stt" => speech_chunks > 0

\* C2: a run of at least MIN_SPEECH_CHUNKS consecutive speech frames
\* followed by at least SILENCE_CHUNKS silence frames has made the session
\* emit exactly one utterance.
C2_ExactlyOneUtterance ==
  (h.speech >= MIN_SPEECH_CHUNKS /\ h.silence >= SILENCE_CHUNKS) => h.emits = 1

\* C3: a media frame that arrived while a response was being spoken (the
\* gate was closed) is never passed to the segmenter: the step that takes
\* it from the connection leaves buffer, speech and counters unchanged.
C3_GatedFramesDiscarded ==
  [][(Consumes /\ Head(inbox).kind = "media" /\ Head(inbox).gated)
       => UNCHANGED segmenter]_vars

\* C4: while a transcription or synthesis call of the session is
\* outstanding, no inbound message is taken from the connection and no
\* frame is decoded or segmented.
C4_Serialized ==
  [][(pc \in {"stt", "tts"}) => (~Consumes /\ buf' = buf /\ h' = h)]_vars

C4_Witness ==
  /\ pc \in {"stt", "tts"}
  /\ inbox # <<>> /\ Head(inbox).kind = "media"

\* C5: the pitch is spoken exactly once: the first start event calls
\* speak with it, it is never spoken twice, and a start event taken once
\* the session has started changes nothing.
C5_PitchOnce ==
  /\ [](times[PITCH] <= 1 /\ (session.started => times[PITCH] = 1))
  /\ [][(Receiving /\ Consumes /\ Head(inbox).kind = "start" /\ times[PITCH] = 0)
          => (pc' = "tts" /\ line' = PITCH /\ times'[PITCH] = 1)]_vars
  /\ [][(Receiving /\ Consumes /\ Head(inbox).kind = "start" /\ session.started)
          => UNCHANGED <<pc, session, segmenter, speaker, combined>>]_vars

C5_Witness ==
  /\ session.started /\ times[PITCH] = 1
  /\ Receiving /\ inbox # <<>> /\ Head(inbox).kind = "start"

\* C6: once the session has started, the recognized text "not interested"
\* is answered with the closing line.
C6_NotInterestedEnds ==
  (session.started /\ combined = W_not_interested /\ pc = "tts") => line = BYE

\* C7: an utterance classified Negative (an exit word, no FAQ keyword, no
\* confirmation word) is answered with the closing line; the closing line
\* is spoken at most once; from then on the handler takes no message from
\* the connection, leaves buffer, counters, step and pending text alone and
\* ends when speak returns.
C7_NegativeEnds ==
  /\ [][(SttReturns /\ combined' # combined /\ detect_faq(combined') = 0
           /\ ~is_positive(combined') /\ is_negative(combined'))
          => (pc' = "tts" /\ line' = BYE /\ times'[BYE] = 1)]_vars
  /\ [](times[BYE] <= 1)
  /\ [](times[BYE] = 1 => pc \in {"tts", "send", "sleep", "ended", "closed", "crashed"})
  /\ [][(times[BYE] = 1)
          => (/\ ~Consumes
              /\ UNCHANGED <<segmenter, times>>
              /\ session'.step = session.step
              /\ session'.pending_text = session.pending_text)]_vars
  /\ [][(line = BYE /\ pc = "sleep" /\ pc' # "sleep") => pc' = "ended"]_vars

C7_Witness == pc = "ended" /\ times[BYE] = 1 /\ inbox # <<>>

\* C8: a text with both a FAQ keyword and a confirmation word is answered
\* with the FAQ answer of the first key of the table that occurs in it,
\* then with the nudge line; no step line is spoken and the step index does
\* not change.
C8_FaqWins ==
  /\ [][(SttReturns /\ combined' # combined
           /\ detect_faq(combined') # 0 /\ is_positive(combined'))
          => (/\ pc' = "tts" /\ site' = "faq"
              /\ line' = FAQ_MAP(detect_faq(combined'))
              /\ (combined' = T_ok_emi_interest => line' = FAQ_MAP(1))
              /\ times' = times
              /\ session'.step = session.step)]_vars
  /\ [][(site = "faq" /\ pc = "sleep" /\ pc' # "sleep")
          => (pc' = "tts" /\ line' = NUDGE /\ session'.step = session.step)]_vars
  /\ [][(site \in {"faq", "nudge"})
          => (session'.step = session.step /\ times' = times)]_vars

C8_Witness ==
  /\ combined = T_ok_emi_interest /\ line = NUDGE /\ pc = "sleep"
  /\ session.step = 1

\* C9: the step index never decreases and stays within 0..len(STEPS); a
\* Positive utterance at index < len(STEPS) speaks STEPS[index], and the
\* index grows by exactly one when that speak call returns; a Positive
\* utterance at index = len(STEPS) speaks the closing offer and leaves the
\* index alone; every step line is spoken at most once, in script order.
C9_StepCursor ==
  /\ [](session.step \in 0..Len(STEPS))
  /\ [][session'.step >= session.step]_vars
  /\ [][(SttReturns /\ combined' # combined
           /\ detect_faq(combined') = 0 /\ is_positive(combined'))
          => IF session.step < Len(STEPS)
             THEN pc' = "tts" /\ line' = STEPS[session.step + 1]
             ELSE pc' = "tts" /\ line' = OFFER]_vars
  /\ [][(pc = "sleep" /\ pc' # "sleep")
          => IF line \in {STEPS[k] : k \in 1..Len(STEPS)}
             THEN session'.step = session.step + 1
             ELSE session'.step = session.step]_vars
  /\ [][(pc # "sleep") => session'.step = session.step]_vars
  /\ [](\A k \in 1..Len(STEPS) :
          /\ times[STEPS[k]] <= 1
          /\ (times[STEPS[k]] = 1 => \A j \in 1..k : times[STEPS[j]] = 1))

C9_Witness ==
  /\ session.step = Len(STEPS) /\ line = OFFER
  /\ \A k \in 1..Len(STEPS) : times[STEPS[k]] = 1

\* C10: every utterance whose transcript is empty, or whose combined text
\* matches no FAQ, confirmation or exit keyword, is answered with a spoken
\* line (the re-prompt or the clarifying menu).
C10_UnmatchedReprompted ==
  [][(SttReturns /\ (combined' = combined
                      \/ (/\ detect_faq(combined') = 0
                          /\ ~is_positive(combined')
                          /\ ~is_negative(combined'))))
       => pc' = "tts"]_vars

\* the concatenation of the payloads of a sequence of frames
RECURSIVE Joined(_)
Joined(frames) ==
  IF frames = <<>> THEN <<>> ELSE BCat(Head(frames), Joined(Tail(frames)))

\* C11: once speak has left its frame loop on an open connection it has
\* sent ceil(len(pcm) / MIN_CHUNK_SIZE) frames, every frame but the last
\* of MIN_CHUNK_SIZE bytes, the last not empty, and the payloads in the
\* order sent make up the synthesized audio; during the loop they make up
\* its first i bytes.
C11_Playback ==
  /\ pc = "send" => Joined(out) = BTake(pcm, i)
  /\ pc = "sleep" =>
       /\ Len(out) = (BLen(pcm) + MIN_CHUNK_SIZE - 1) \div MIN_CHUNK_SIZE
       /\ Joined(out) = pcm
       /\ \A k \in 1..Len(out) :
            /\ k < Len(out) => BLen(out[k]) = MIN_CHUNK_SIZE
            /\ 0 < BLen(out[k]) /\ BLen(out[k]) <= MIN_CHUNK_SIZE

C11_Witness ==
  /\ pc = "sleep" /\ Len(out) = 2
  /\ BLen(out[1]) = MIN_CHUNK_SIZE /\ BLen(out[2]) = MIN_CHUNK_SIZE \div 2

\* C12: a synthesis call that fails skips the line and the session
\* survives: a tts call that ends without audio leaves ws_handler in its
\* receive loop with the gate open.
C12_SynthesisFailureSurvived ==
  [][(pc = "tts" /\ pc' \notin {"tts", "send", "sleep"})
       => (pc' = "receive" /\ ~session'.bot_speaking)]_vars

\* C13: a malformed event (text that is not JSON, a media event without
\* media.payload) is dropped: the step that takes it leaves ws_handler in
\* its receive loop and changes neither the session nor the accumulator.
C13_MalformedDropped ==
  [][(Consumes /\ Head(inbox).kind \in {"badjson", "nomedia"})
       => (pc' = "receive" /\ UNCHANGED <<session, segmenter>>)]_vars

\* C14: a transcription call that fails does not end the session: when
\* stt_safe returns from the failure, ws_handler is back in its receive
\* loop, the accumulator is reset, and the session (step index, pending
\* text, gate) and the lines spoken are as they were.
C14_SttFailureSurvived ==
  [][(pc = "stt_failed" /\ pc' # "stt_failed")
       => (/\ pc' = "receive"
           /\ speech' = <<>> /\ speech_chunks' = 0 /\ silence_chunks' = 0
           /\ session' = session
           /\ UNCHANGED <<line, times, combined>>)]_vars

C14_Witness ==
  /\ pc = "stt_failed"
  /\ speech_chunks >= MIN_SPEECH_CHUNKS
  /\ session.step > 0 /\ session.pending_text # <<>>

\* the question stems an utterance can be left dangling on
QUESTION_STEMS == {<<"w","h","a","t">>, <<"h","o","w">>, <<"t","h","e">>,
                   <<"i","s">>}

\* the text ends on a question stem
EndsOnStem(t) ==
  \E q \in QUESTION_STEMS :
    /\ Len(t) >= Len(q)
    /\ MatchAt(t, q, Len(t) - Len(q) + 1)
    /\ (Len(t) > Len(q) => IsSpace(t[Len(t) - Len(q)]))

\* C15: an utterance left incomplete, its text ending on a dangling
\* question stem, is withheld: ws_handler speaks nothing for it and the
\* step index stays where it was, also when the text holds a FAQ key or a
\* confirmation word.
C15_IncompleteWithheld ==
  [][(SttReturns /\ combined' # combined /\ EndsOnStem(combined'))
       => (pc' = "receive" /\ session'.step = session.step)]_vars

\* C16: ws_handler hands an utterance to stt_safe only when both counters
\* have reached their limits: at least MIN_SPEECH_CHUNKS frames of speech
\* and at least SILENCE_CHUNKS frames of silence after them, so never on a
\* frame of speech.
C16_BothCountersReached ==
  pc \in {"stt", "stt_failed"} =>
    /\ speech_chunks >= MIN_SPEECH_CHUNKS
    /\ silence_chunks >= SILENCE_CHUNKS

\* speak is between its first statement and the end of its pacing delay
Speaking == pc \in {"tts", "send", "sleep"}

\* C17: within a speak call the gate closes, the synthesis completes,
\* every frame is sent, the pacing delay elapses and only then the gate
\* reopens: the gate is closed wherever speak is under way, the stages
\* follow each other in that order, the delay starts only once the frames
\* sent make up the whole audio, the gate reopens only at the end of the
\* delay, and a speak call starts only where no other is under way or
\* where the one before it has just ended its delay.
C17_SpeakOrder ==
  /\ [](Speaking => session.bot_speaking)
  /\ [][/\ (pc' = "tts" /\ pc # "tts")
            => (pc \in {"receive", "stt", "stt_failed", "sleep"}
                /\ out' = <<>> /\ pcm' = <<>>)
        /\ (pc' = "send" /\ pc # "send") => pc = "tts"
        /\ (pc' = "sleep" /\ pc # "sleep")
            => (pc \in {"tts", "send"} /\ Joined(out') = pcm')
        /\ (session.bot_speaking /\ ~session'.bot_speaking)
            => (pc = "sleep" /\ Joined(out) = pcm)
        /\ (Speaking /\ ~Speaking') => (pc = "sleep" \/ pc' \in {"closed", "crashed"})]_vars

C17_Witness ==
  /\ pc = "sleep" /\ site = "nudge"
  /\ session.bot_speaking
  /\ Joined(out) = pcm /\ pcm # <<>>
  /\ inbox # <<>>

OwnText(p, c) ==
  IF Strip(p) = <<>> THEN c ELSE SubSeq(c, Len(Strip(p)) + 2, Len(c))

\* the line that answers the text t at the step index step, NoLine if
\* nothing is spoken
Response(t, step) ==
  CASE Intent(t) = "faq" -> FAQ_MAP(detect_faq(t))
    [] Intent(t) = "positive" ->
         IF HasStep(step) THEN STEPS[step + 1] ELSE OFFER
    [] Intent(t) = "negative" -> BYE
    [] OTHER -> NoLine

\* C18: every utterance is classified on its own: the line that answers
\* an utterance is the one its own normalized text and the step index
\* call for, whatever earlier utterances that matched nothing have left
\* behind.
C18_ClassifiedAlone ==
  [][(SttReturns /\ combined' # combined)
       => line' = Response(OwnText(session.pending_text, combined'),
                           session.step)]_vars

\* the session has not yet been given the start event that triggers the
\* pitch
AwaitingStart == times[PITCH] = 0

\* C20: the pitch is the first line of the session: while the session
\* awaits its start event, media frames are neither segmented nor
\* transcribed and no line is spoken.
C20_PitchFirst ==
  AwaitingStart =>
    /\ speech = <<>> /\ speech_chunks = 0 /\ silence_chunks = 0
    /\ pc \notin {"stt", "stt_failed"}
    /\ line = NoLine
====
